---- MODULE Spec2Model ----
(***************************************************************************)
(* The check-all command orchestrator (scripts/check-all.ts and its        *)
(* configuration-file variant).  One run of the script is modelled at the  *)
(* granularity of the JavaScript event loop: every action is one handler   *)
(* run to its next suspension point (module evaluation up to the first     *)
(* await, the callback of a finished `exec`, the close event of a child    *)
(* started by `concurrently`), continuations of settled promises included. *)
(* Elapsed-time measurement (performance.now) is not modelled.             *)
(***************************************************************************)
EXTENDS Integers, Sequences, FiniteSets, TLC

VARIABLES variant, file, args, checkOnly, seqFormat, parCommon, pc, mode,
          modesRun, i, parList, started, running, closed, killed, hung,
          errors, fixErrors, console, raised, exitCode, exitCalls

\* variant    which script runs: "hardcoded" (lists in the source) or "config"
\* file       the configuration file check-all.yml as found at start
\* args       process.argv.slice(2)
\* checkOnly, seqFormat, parCommon
\*            the three command groups after module evaluation
\* pc         "start", "seq" (awaiting an exec of runSequential), "par"
\*            (awaiting the result of concurrently), "done" (process ended)
\* mode       the mode run() selected; modesRun: every mode entered
\* i          position of runSequential's loop (0 outside the loop)
\* parList    the list handed to concurrently
\* started    the children spawned, in spawn order
\* running    the children spawned and not yet closed
\* closed     the children that ended, each with its exit status
\* killed     the children concurrently killed
\* hung       the running children that will never end by themselves
\* errors     runSequential's error list; fixErrors: runFix's error list
\* console    the lines written to the console, in order
\* raised     the error runWithTimer caught, if any
\* exitCode   the exit status of the process (-1 while it runs)
\* exitCalls  the number of calls of process.exit
vars == <<variant, file, args, checkOnly, seqFormat, parCommon, pc, mode,
          modesRun, i, parList, started, running, closed, killed, hung,
          errors, fixErrors, console, raised, exitCode, exitCalls>>

----------------------------------------------------------------------------
(* Bounds of the model *)

\* longest command list a configuration file provides
MaxLen == 2

\* most command-line arguments after the script name
MaxArgs == 1

\* most commands of one run that never end
MaxHung == 1

\* longest command list of a configuration file in the runs checked for
\* termination
MaxLiveLen == 1

----------------------------------------------------------------------------
(* Command lists *)

\* check-all.ts: check mode only
CHECK_COMMANDS == <<"bun lint", "bun prettier">>

\* check-all.ts: fix mode only, run sequentially
FORMAT_COMMANDS == <<"bun format", "bun prettier:fix">>

\* check-all.ts: both modes, run in parallel
PARALLEL_CHECK_COMMANDS ==
    <<"bun package-format", "bun package-lint-semver-ranges", "bun tsc",
      "bun knip", "bun test:unit">>

\* command strings a configuration file may list, per array
CheckPool == <<"chk1", "chk2", "chk3", "chk4">>

FormatPool == <<"fmt1", "fmt2", "fmt3", "fmt4">>

CommonPool == <<"com1", "com2", "com3", "com4">>

\* a value that may be undefined (a missing key of the parsed document)
Undefined == [defined |-> FALSE, items |-> <<>>]

Some(list) == [defined |-> TRUE, items |-> list]

\* the values one key of the parsed YAML document may have
KeyValues(pool) == {Undefined} \cup {Some(SubSeq(pool, 1, n)) : n \in 0..MaxLen}

\* the configuration file next to the script: absent, unparsable, or a
\* document with up to three arrays of command strings
ConfigFiles ==
    { [exists |-> FALSE, wellFormed |-> FALSE,
       parallel_check_commands |-> Undefined,
       sequential_format_commands |-> Undefined,
       parallel_common_check_commands |-> Undefined],
      [exists |-> TRUE, wellFormed |-> FALSE,
       parallel_check_commands |-> Undefined,
       sequential_format_commands |-> Undefined,
       parallel_common_check_commands |-> Undefined] }
    \cup
    [exists : {TRUE}, wellFormed : {TRUE},
     parallel_check_commands : KeyValues(CheckPool),
     sequential_format_commands : KeyValues(FormatPool),
     parallel_common_check_commands : KeyValues(CommonPool)]

\* the hard-coded variant reads no file
NoFile ==
    [exists |-> FALSE, wellFormed |-> FALSE,
     parallel_check_commands |-> Undefined,
     sequential_format_commands |-> Undefined,
     parallel_common_check_commands |-> Undefined]

\* the file holding exactly the hard-coded lists
HardCodedFile ==
    [exists |-> TRUE, wellFormed |-> TRUE,
     parallel_check_commands |-> Some(CHECK_COMMANDS),
     sequential_format_commands |-> Some(FORMAT_COMMANDS),
     parallel_common_check_commands |-> Some(PARALLEL_CHECK_COMMANDS)]

\* process.argv.slice(2)
ArgTokens == {"fix", "--verbose"}

ArgLists == UNION {[1..n -> ArgTokens] : n \in 0..MaxArgs}

\* exit statuses of a child process
ExitCodes == {0, 1}

----------------------------------------------------------------------------
(* Module evaluation: configuration loading *)

\* readFileSync / parse / the two .map calls throw at module evaluation
LoadThrows(v, f) ==
    /\ v = "config"
    /\ \/ ~f.exists
       \/ ~f.wellFormed
       \/ ~f.parallel_check_commands.defined
       \/ ~f.parallel_common_check_commands.defined

\* variant of LoadedCheckOnly: the check-only group is read from the
\* parallel-common array of the file
LoadedCheckOnlyFromCommon(v, f) ==
    IF v = "config" THEN f.parallel_common_check_commands
    ELSE Some(CHECK_COMMANDS)

\* the three command groups after module evaluation
LoadedCheckOnly(v, f) ==
    IF v = "config" THEN f.parallel_check_commands ELSE Some(CHECK_COMMANDS)

LoadedSeqFormat(v, f) ==
    IF v = "config" THEN f.sequential_format_commands ELSE Some(FORMAT_COMMANDS)

LoadedParCommon(v, f) ==
    IF v = "config" THEN f.parallel_common_check_commands
    ELSE Some(PARALLEL_CHECK_COMMANDS)

\* Array.prototype.includes
Includes(s, x) == \E k \in 1..Len(s) : s[k] = x

\* variant of IsFix: any argument at all selects fix mode
IsFixAnyArgument(a) == Len(a) > 0

\* run: const isFix = args.includes("fix")
IsFix(a) == Includes(a, "fix")

----------------------------------------------------------------------------
(* Child processes *)

\* one entry of a command group: the k-th command of group g
Entry(g, k) == [grp |-> g, idx |-> k]

Entries(g, list) == [k \in 1..Len(list) |-> Entry(g, k)]

\* the command string of an entry
CommandOf(e) ==
    IF e.grp = "check" THEN checkOnly.items[e.idx]
    ELSE IF e.grp = "format" THEN seqFormat.items[e.idx]
    ELSE parCommon.items[e.idx]

Range(s) == {s[k] : k \in 1..Len(s)}

----------------------------------------------------------------------------
(* Console output and errors *)

Line(kind, text, cmd, code) ==
    [kind |-> kind, text |-> text, cmd |-> cmd, code |-> code, error |-> ""]

NoError == [thrown |-> FALSE, message |-> "", commands |-> <<>>]

Error(message, commands) ==
    [thrown |-> TRUE, message |-> message, commands |-> commands]

\* variant of ExecLines: the failure marker line comes after the output
ExecLinesMarkerLast(cmd, code, so, se) ==
    (IF so THEN <<Line("stdout", "", cmd, -1)>> ELSE <<>>)
    \o (IF se THEN <<Line("stderr", "", cmd, -1)>> ELSE <<>>)
    \o (IF code = 0 THEN <<>>
        ELSE <<Line("failed_marker", "Command failed", cmd, -1)>>)

\* variant of ExecLines: the failure marker line is left out
ExecLinesNoMarker(cmd, code, so, se) ==
    (IF so THEN <<Line("stdout", "", cmd, -1)>> ELSE <<>>)
    \o (IF se THEN <<Line("stderr", "", cmd, -1)>> ELSE <<>>)

\* console.error(`❌ Command failed: ${command}`) and the relayed output of
\* one `exec` (so: stdout is non-empty, se: stderr is non-empty)
OutputLines(cmd, so, se) ==
    (IF so THEN <<Line("stdout", "", cmd, -1)>> ELSE <<>>)
    \o (IF se THEN <<Line("stderr", "", cmd, -1)>> ELSE <<>>)

ExecLines(cmd, code, so, se) ==
    IF code = 0 THEN OutputLines(cmd, so, se)
    ELSE <<Line("failed_marker", "Command failed", cmd, -1)>>
         \o OutputLines(cmd, so, se)

\* variant of PushError: a record is pushed for every command
PushErrorAlways(errs, cmd, code) ==
    Append(errs, [command |-> cmd, code |-> code])

\* runSequential: errors.push({ command, error }) in the catch block only
PushError(errs, cmd, code) ==
    IF code = 0 THEN errs ELSE Append(errs, [command |-> cmd, code |-> code])

\* runSequential: the aggregate error thrown after the loop
SeqOutcome(errs) ==
    IF Len(errs) > 0
    THEN Error("Sequential commands failed",
               [k \in 1..Len(errs) |-> errs[k].command])
    ELSE NoError

\* `for (const command of commands)` over an undefined value
NotIterable == Error("TypeError: commands is not iterable", <<>>)

\* runFix: errors.push(`Sequential execution failed: ${message}`)
WrapSequential(fe, err) ==
    IF err.thrown
    THEN Append(fe, Error("Sequential execution failed", err.commands))
    ELSE fe

\* runFix: errors.push(`Parallel execution failed: ${message}`)
WrapParallel(fe, err) ==
    IF err.thrown
    THEN Append(fe, Error("Parallel execution failed", err.commands))
    ELSE fe

RECURSIVE JoinCommands(_)
JoinCommands(fe) ==
    IF Len(fe) = 0 THEN <<>> ELSE Head(fe).commands \o JoinCommands(Tail(fe))

\* runFix: if (errors.length > 0) throw new Error(errors.join("\n\n"))
FixOutcome(fe) ==
    IF Len(fe) > 0 THEN Error("joined", JoinCommands(fe)) ELSE NoError

\* concurrently: assert that the command list is not empty
NoCommands(list) == Len(list) = 0

NoCommandsError == Error("[concurrently] no commands provided", <<>>)

\* variant of ResultRejects: the result rejects only when every command failed
ResultRejectsIfAllFail(cl) == cl # {} /\ \A r \in cl : r.code # 0

\* concurrently, default success condition "all": the result promise rejects
\* when some command closed with a non-zero exit code
ResultRejects(cl) == \E r \in cl : r.code # 0

\* runConcurrentlyOnly: the rejection value is the list of close events, which
\* has no `message`, so the text is "Some commands failed: Unknown error"
SomeCommandsFailed == Error("Some commands failed: Unknown error", <<>>)

\* variant of KillOthersConditions: a failing child kills its siblings
KillOthersOnFailure == {"failure"}

\* concurrently, killOthers: [] : no exit status of a child kills its siblings
KillOthersConditions == {}

KillOthers(code, others) ==
    IF \/ "failure" \in KillOthersConditions /\ code # 0
       \/ "success" \in KillOthersConditions /\ code = 0
    THEN others
    ELSE {}

\* concurrently, group: true : the lines of the k-th command are written once
\* all commands before it have closed
LeadClosed(list, cl) ==
    CHOOSE n \in 0..Len(list) :
        /\ \A k \in 1..n : \E r \in cl : r.entry = list[k]
        /\ n = Len(list) \/ ~ \E r \in cl : r.entry = list[n + 1]

CodeOf(cl, e) == (CHOOSE r \in cl : r.entry = e).code

ExitLines(list, old, new) ==
    LET from == LeadClosed(list, old)
        to == LeadClosed(list, new)
    IN  [k \in 1..(to - from) |->
            Line("exited", "exited with code", CommandOf(list[from + k]),
                 CodeOf(new, list[from + k]))]

\* runWithTimer: process.exit(0) after fn resolved, process.exit(1) in catch
ExitStatus(err) == IF err.thrown THEN 1 ELSE 0

\* runWithTimer: the summary line; the caught error is not bound (`catch {`)
\* and nothing of it is printed
SummaryLine(err, successMessage, failureMessage) ==
    IF err.thrown THEN Line("summary_fail", failureMessage, "", -1)
    ELSE Line("summary_ok", successMessage, "", -1)

\* variant of CanClose: a command that hangs is ended after a time limit
CanCloseByTimeout(e, h) == TRUE

\* exec and concurrently are given no timeout: the close event of a child
\* comes only when the child ends by itself
CanClose(e, h) == e \notin h

\* variant of Settled: the result settles with the first child that closes
SettledOnFirstClose(rest) == TRUE

\* concurrently: the result promise settles once every command has closed
Settled(rest) == rest = {}

\* variant of MaxProcesses: one child at a time
MaxProcessesOne(n) == 1

\* concurrently, no maxProcesses option: as many children as commands
MaxProcesses(n) == n

\* concurrently: the command spawned when a child closes, if one is waiting
RunMore(list, st) ==
    LET waiting == SelectSeq(list, LAMBDA x : x \notin Range(st))
    IN  IF Len(waiting) > 0 THEN <<Head(waiting)>> ELSE <<>>

----------------------------------------------------------------------------
(* The run *)

\* variant of CheckModeCommands: the check-only group is left out
CheckModeCommandsCommonOnly(chk, com) == Entries("common", com)

\* runCheck: const commands = [...CHECK_COMMANDS, ...PARALLEL_CHECK_COMMANDS]
CheckModeCommands(chk, com) == Entries("check", chk) \o Entries("common", com)

\* variant of FixModeCommands: the check-only group is run as well
FixModeCommandsWithCheck(chk, com) ==
    Entries("check", chk) \o Entries("common", com)

\* runFix: the list handed to runConcurrentlyOnly
FixModeCommands(chk, com) == Entries("common", com)

\* variant of SeqOrder: the list is visited from its end
SeqOrderReversed(n) == [k \in 1..n |-> n + 1 - k]

\* runSequential: `for (const command of commands)` visits the list in order
SeqOrder(n) == [k \in 1..n |-> k]

\* variant of NextIndex: a command that failed is run again
NextIndexRetryOnFailure(k, n, code) == IF code # 0 THEN k ELSE k + 1

\* variant of NextIndex: the first failure leaves the loop
NextIndexStopOnFailure(k, n, code) == IF code # 0 THEN n + 1 ELSE k + 1

\* runSequential: the loop goes on to the next command after a success and
\* after a failure alike (the catch block does not leave the loop)
NextIndex(k, n, code) == k + 1

Init ==
    /\ variant \in {"hardcoded", "config"}
    /\ file \in IF variant = "hardcoded" THEN {NoFile}
                ELSE ConfigFiles \cup {HardCodedFile}
    /\ args \in ArgLists
    /\ checkOnly = Undefined
    /\ seqFormat = Undefined
    /\ parCommon = Undefined
    /\ pc = "start"
    /\ mode = "none"
    /\ modesRun = {}
    /\ i = 0
    /\ parList = <<>>
    /\ started = <<>>
    /\ running = {}
    /\ closed = {}
    /\ killed = {}
    /\ hung = {}
    /\ errors = <<>>
    /\ fixErrors = <<>>
    /\ console = <<>>
    /\ raised = NoError
    /\ exitCode = -1
    /\ exitCalls = 0

\* runWithTimer: the summary line and process.exit
Exit(cons, err, successMessage, failureMessage) ==
    /\ console' = Append(cons, SummaryLine(err, successMessage, failureMessage))
    /\ exitCode' = ExitStatus(err)
    /\ exitCalls' = exitCalls + 1
    /\ raised' = err
    /\ pc' = "done"

\* concurrently: every command of the list is spawned in the call itself
Launch(list, st) ==
    /\ parList' = list
    /\ started' = st \o SubSeq(list, 1, MaxProcesses(Len(list)))
    /\ running' = Range(SubSeq(list, 1, MaxProcesses(Len(list))))
    /\ pc' = "par"

\* runFix after the sequential stage: the second try block and the final throw
FixParallelStage(list, fe, cons, st) ==
    IF NoCommands(list)
    THEN /\ fixErrors' = WrapParallel(fe, NoCommandsError)
         /\ Exit(cons, FixOutcome(WrapParallel(fe, NoCommandsError)),
                 "All fixes and checks completed", "Fixes or checks failed")
         /\ parList' = list
         /\ started' = st
         /\ running' = {}
    ELSE /\ fixErrors' = fe
         /\ console' = cons
         /\ Launch(list, st)
         /\ UNCHANGED <<exitCode, exitCalls, raised>>

\* module evaluation of the configuration-file variant fails: the exception
\* is uncaught and the process ends with status 1 before run() is called
LoadFailure ==
    /\ pc = "start"
    /\ LoadThrows(variant, file)
    /\ pc' = "done"
    /\ exitCode' = 1
    /\ console' = Append(console, Line("uncaught", "load", "", -1))
    /\ UNCHANGED <<variant, file, args, checkOnly, seqFormat, parCommon, mode,
                   modesRun, i, parList, started, running, closed, killed,
                   hung, errors, fixErrors, raised, exitCalls>>

\* module evaluation, run() without "fix": runCheck up to `await result`
RunCheck ==
    /\ pc = "start"
    /\ ~LoadThrows(variant, file)
    /\ ~IsFix(args)
    /\ checkOnly' = LoadedCheckOnly(variant, file)
    /\ seqFormat' = LoadedSeqFormat(variant, file)
    /\ parCommon' = LoadedParCommon(variant, file)
    /\ mode' = "check"
    /\ modesRun' = modesRun \cup {"check"}
    /\ LET list == CheckModeCommands(LoadedCheckOnly(variant, file).items,
                                     LoadedParCommon(variant, file).items)
       IN  IF NoCommands(list)
           THEN /\ Exit(console, NoCommandsError,
                        "All checks completed", "Checks failed")
                /\ parList' = list
                /\ UNCHANGED <<started, running>>
           ELSE /\ Launch(list, started)
                /\ UNCHANGED <<console, exitCode, exitCalls, raised>>
    /\ UNCHANGED <<variant, file, args, i, closed, killed, hung, errors,
                   fixErrors>>

\* module evaluation, run() with "fix": runFix up to its first await
RunFix ==
    /\ pc = "start"
    /\ ~LoadThrows(variant, file)
    /\ IsFix(args)
    /\ checkOnly' = LoadedCheckOnly(variant, file)
    /\ seqFormat' = LoadedSeqFormat(variant, file)
    /\ parCommon' = LoadedParCommon(variant, file)
    /\ mode' = "fix"
    /\ modesRun' = modesRun \cup {"fix"}
    /\ LET fmt == LoadedSeqFormat(variant, file)
           list == FixModeCommands(LoadedCheckOnly(variant, file).items,
                                   LoadedParCommon(variant, file).items)
       IN  IF ~fmt.defined
           THEN /\ FixParallelStage(list, WrapSequential(<<>>, NotIterable),
                                    console, started)
                /\ i' = 0
           ELSE IF Len(fmt.items) = 0
           THEN /\ FixParallelStage(list, <<>>, console, started)
                /\ i' = 0
           ELSE /\ i' = 1
                /\ started' =
                     Append(started,
                            Entry("format", SeqOrder(Len(fmt.items))[1]))
                /\ running' = {Entry("format", SeqOrder(Len(fmt.items))[1])}
                /\ pc' = "seq"
                /\ UNCHANGED <<parList, fixErrors, console, exitCode,
                               exitCalls, raised>>
    /\ UNCHANGED <<variant, file, args, closed, killed, hung, errors>>

\* the running sequential command ends: the rest of the loop body, then the
\* next command, or the end of runSequential and the parallel stage of runFix
SeqExit(code, so, se) ==
    /\ pc = "seq"
    /\ CanClose(Entry("format", SeqOrder(Len(seqFormat.items))[i]), hung)
    /\ LET n == Len(seqFormat.items)
           e == Entry("format", SeqOrder(n)[i])
           cmd == CommandOf(e)
           cons == console \o ExecLines(cmd, code, so, se)
           errs == PushError(errors, cmd, code)
           next == NextIndex(i, n, code)
       IN  /\ closed' = closed \cup {[entry |-> e, code |-> code]}
           /\ errors' = errs
           /\ IF next <= n
              THEN /\ i' = next
                   /\ started' = Append(started, Entry("format", SeqOrder(n)[next]))
                   /\ running' = {Entry("format", SeqOrder(n)[next])}
                   /\ console' = cons
                   /\ UNCHANGED <<pc, parList, fixErrors, exitCode, exitCalls,
                                  raised>>
              ELSE /\ i' = 0
                   /\ FixParallelStage(
                        FixModeCommands(checkOnly.items, parCommon.items),
                        WrapSequential(<<>>, SeqOutcome(errs)), cons, started)
    /\ UNCHANGED <<variant, file, args, checkOnly, seqFormat, parCommon, mode,
                   modesRun, killed, hung>>

\* a child of the parallel group closes; when it is the last one the result
\* promise settles and the run goes on to process.exit
ParClose(e, code) ==
    /\ pc = "par"
    /\ e \in running
    /\ CanClose(e, hung)
    /\ e \in killed => code # 0
    /\ LET cl == closed \cup {[entry |-> e, code |-> code]}
           group == {r \in cl : r.entry \in Range(parList)}
           cons == console \o ExitLines(parList, closed, cl)
           more == RunMore(parList, started)
           rest == (running \ {e}) \cup Range(more)
           err == IF ResultRejects(group) THEN SomeCommandsFailed ELSE NoError
       IN  /\ closed' = cl
           /\ started' = started \o more
           /\ running' = rest
           /\ killed' = killed \cup KillOthers(code, rest)
           /\ IF ~Settled(rest)
              THEN /\ console' = cons
                   /\ UNCHANGED <<pc, fixErrors, exitCode, exitCalls, raised>>
              ELSE IF mode = "check"
              THEN /\ fixErrors' = fixErrors
                   /\ Exit(cons, err, "All checks completed", "Checks failed")
              ELSE /\ fixErrors' = WrapParallel(fixErrors, err)
                   /\ Exit(cons, FixOutcome(WrapParallel(fixErrors, err)),
                           "All fixes and checks completed",
                           "Fixes or checks failed")
    /\ UNCHANGED <<variant, file, args, checkOnly, seqFormat, parCommon, mode,
                   modesRun, i, parList, hung, errors>>

SeqExitAny == \E code \in ExitCodes, so \in BOOLEAN, se \in BOOLEAN :
                  SeqExit(code, so, se)

ParCloseAny == \E e \in running, code \in ExitCodes : ParClose(e, code)

Next ==
    \/ LoadFailure
    \/ RunCheck
    \/ RunFix
    \/ SeqExitAny
    \/ ParCloseAny

Spec == Init /\ [][Next]_vars

\* a running child turns out never to end (a tool that blocks for ever)
Hang(e) ==
    /\ pc \in {"seq", "par"}
    /\ e \in running \ hung
    /\ Cardinality(hung) < MaxHung
    /\ hung' = hung \cup {e}
    /\ UNCHANGED <<variant, file, args, checkOnly, seqFormat, parCommon, pc,
                   mode, modesRun, i, parList, started, running, closed,
                   killed, errors, fixErrors, console, raised, exitCode,
                   exitCalls>>

HangAny == \E e \in running : Hang(e)

NextOrHang == Next \/ HangAny

\* the runs checked for termination: the hard-coded lists, or a configuration
\* file with short lists; no argument or the argument "fix"
InitLive ==
    /\ Init
    /\ args \in {<<>>, <<"fix">>}
    /\ file # HardCodedFile
    /\ Len(file.parallel_check_commands.items) <= MaxLiveLen
    /\ Len(file.sequential_format_commands.items) <= MaxLiveLen
    /\ Len(file.parallel_common_check_commands.items) <= MaxLiveLen

\* the script is evaluated once the process starts, and the handler of every
\* child that ends is run by the event loop; a child that hangs is never
\* made to end
LiveSpec == InitLive /\ [][NextOrHang]_vars /\ WF_vars(Next)

----------------------------------------------------------------------------
(* Vocabulary of the properties *)

EntrySet(g, opt) == {Entry(g, k) : k \in 1..Len(opt.items)}

ClosedEntries == {r.entry : r \in closed}

FailedEntries == {r.entry : r \in {q \in closed : q.code # 0}}

\* the commands a console line of the orchestrator names as failed
NamedFailed ==
    {console[k].cmd : k \in {j \in 1..Len(console) :
        \/ console[j].kind = "failed_marker"
        \/ console[j].kind = "exited" /\ console[j].code # 0}}

NoDuplicates(s) == \A j, k \in 1..Len(s) : s[j] = s[k] => j = k

IsPrefix(s, t) == Len(s) <= Len(t) /\ \A k \in 1..Len(s) : s[k] = t[k]

\* all three arrays of the configuration are there
WellConfigured == checkOnly.defined /\ seqFormat.defined /\ parCommon.defined

----------------------------------------------------------------------------
(* Properties *)

\* C1: whatever the exit statuses of the commands, once some command invoked in
\* the selected mode has exited non-zero and no command is running any more,
\* the orchestrator has terminated with exit code 1.
C1_AnyFailureExitsOne ==
    (FailedEntries # {} /\ running = {}) => (pc = "done" /\ exitCode = 1)

\* a run of several commands of which exactly one failed has ended
C1_Witness ==
    /\ pc = "done"
    /\ Cardinality(FailedEntries) = 1
    /\ Cardinality(ClosedEntries) >= 3
    /\ exitCode = 1

\* C2 (as claimed): for all command lists, empty groups included, and both
\* modes, if every invoked command exits 0 the orchestrator exits with code 0.
C2_AllSucceedExitsZero ==
    (pc = "done" /\ mode # "none" /\ WellConfigured /\ FailedEntries = {})
        => exitCode = 0

\* C3: a run in check mode starts exactly the commands of the check-only group
\* and of the parallel-common group, each once, and never a command of the
\* sequential-format group.
C3_CheckModeStarts ==
    mode = "check" =>
        /\ Range(started) = EntrySet("check", checkOnly)
                            \cup EntrySet("common", parCommon)
        /\ NoDuplicates(started)
        /\ \A e \in Range(started) : e.grp # "format"

\* a check run whose three groups are all non-empty has ended
C3_Witness ==
    /\ mode = "check"
    /\ pc = "done"
    /\ Len(checkOnly.items) > 0
    /\ Len(parCommon.items) > 0
    /\ Len(seqFormat.items) > 0
    /\ Len(started) = Len(checkOnly.items) + Len(parCommon.items)

\* C4: a run in fix mode starts only commands of the sequential-format group and
\* of the parallel-common group, has started every one of them (once) when it
\* ends, and never starts a command of the check-only group.
C4_FixModeStarts ==
    mode = "fix" =>
        /\ Range(started) \subseteq EntrySet("format", seqFormat)
                                    \cup EntrySet("common", parCommon)
        /\ pc = "done" => Range(started) = EntrySet("format", seqFormat)
                                           \cup EntrySet("common", parCommon)
        /\ NoDuplicates(started)
        /\ \A e \in Range(started) : e.grp # "check"

\* a fix run whose three groups are all non-empty has ended
C4_Witness ==
    /\ mode = "fix"
    /\ pc = "done"
    /\ Len(checkOnly.items) > 0
    /\ Len(parCommon.items) > 0
    /\ Len(seqFormat.items) > 0
    /\ Len(started) = Len(seqFormat.items) + Len(parCommon.items)

\* C5: in a parallel group no command is ever killed or kept from starting:
\* while the orchestrator waits, every command of the group has been started
\* and is either still running or has closed by itself, and the orchestrator
\* resumes only when every command of the group has closed.
C5_NoSiblingCancelled ==
    /\ killed = {}
    /\ pc = "par" =>
        /\ Range(parList) \subseteq Range(started)
        /\ running = Range(parList) \ ClosedEntries
        /\ running # {}
    /\ (pc = "done" /\ mode # "none") => Range(parList) \subseteq ClosedEntries

\* one command of a parallel group has failed while siblings are still running
C5_Witness ==
    /\ pc = "par"
    /\ FailedEntries \cap Range(parList) # {}
    /\ Cardinality(running) >= 2

\* C6: in fix mode a failing sequential-format command stops nothing: the
\* parallel stage is entered only after every sequential-format command has
\* been executed, and a run whose sequential stage recorded a failure ends
\* with all sequential-format and all parallel-common commands completed and
\* with exit code 1.
C6_FixContinuesPastFailure ==
    mode = "fix" =>
        /\ pc \in {"par", "done"} =>
               EntrySet("format", seqFormat) \subseteq ClosedEntries
        /\ (pc = "done" /\ Len(errors) > 0) =>
               /\ EntrySet("common", parCommon) \subseteq ClosedEntries
               /\ exitCode = 1

\* the first of several sequential-format commands failed, a later one and the
\* parallel-common commands ran all the same
C6_Witness ==
    /\ mode = "fix"
    /\ pc = "done"
    /\ Len(seqFormat.items) >= 2
    /\ Len(parCommon.items) >= 1
    /\ Entry("format", 1) \in FailedEntries
    /\ Entry("format", 2) \in ClosedEntries \ FailedEntries
    /\ EntrySet("common", parCommon) \subseteq ClosedEntries
    /\ exitCode = 1

\* C7: in fix mode the commands are started in the order sequential-format list
\* then parallel-common list, at most one sequential-format command runs at a
\* time, each starts only after the ones before it have completed, and no
\* parallel-common command is started before every sequential-format command
\* has completed.
C7_SequentialOrder ==
    mode = "fix" =>
        /\ IsPrefix(started, Entries("format", seqFormat.items)
                             \o Entries("common", parCommon.items))
        /\ Cardinality({e \in running : e.grp = "format"}) <= 1
        /\ \A k \in 1..Len(started) :
               started[k].grp = "format" =>
                   \A j \in 1..(started[k].idx - 1) :
                       Entry("format", j) \in ClosedEntries
        /\ (\E e \in Range(started) : e.grp = "common") =>
               EntrySet("format", seqFormat) \subseteq ClosedEntries

\* the second sequential-format command is running, the parallel stage not
\* yet started
C7_Witness ==
    /\ mode = "fix"
    /\ pc = "seq"
    /\ Len(seqFormat.items) >= 2
    /\ Len(parCommon.items) >= 1
    /\ running = {Entry("format", 2)}
    /\ Entry("format", 1) \in ClosedEntries

\* C8 (as claimed): with a configuration file that is missing, unparsable or
\* lacks one of the three arrays, the process ends with a non-zero status and
\* no command is ever started, in check mode and in fix mode.
C8_BadConfigFailsFast ==
    (/\ variant = "config"
     /\ \/ ~file.exists
        \/ ~file.wellFormed
        \/ ~file.parallel_check_commands.defined
        \/ ~file.sequential_format_commands.defined
        \/ ~file.parallel_common_check_commands.defined)
    => /\ started = <<>>
       /\ pc # "start" => (pc = "done" /\ exitCode # 0)

\* C9: when the orchestrator exits, its console output names every command
\* that failed, and a stage's aggregate error has reached the top-level
\* runner: the run ends with the failure summary and exit code 1 exactly
\* when an error was raised to the runner, and one was raised when a command
\* failed.
C9_FailuresReported ==
    (pc = "done" /\ mode # "none") =>
        /\ \A e \in FailedEntries : CommandOf(e) \in NamedFailed
        /\ FailedEntries # {} => raised.thrown
        /\ raised.thrown <=>
               console[Len(console)].kind = "summary_fail"
        /\ raised.thrown =>
               \A k \in 1..Len(errors) :
                   errors[k].command \in Range(raised.commands)

\* a fix run has ended in which a sequential-format and a parallel-common
\* command failed
C9_Witness ==
    /\ pc = "done"
    /\ mode = "fix"
    /\ \E e \in FailedEntries : e.grp = "format"
    /\ \E e \in FailedEntries : e.grp = "common"
    /\ console[Len(console)].kind = "summary_fail"

\* C10: once the entry point has run, exactly one mode has been executed: fix
\* mode when "fix" is among the command-line arguments, check mode otherwise.
C10_ModeSelection ==
    /\ Cardinality(modesRun) <= 1
    /\ (pc # "start" /\ ~LoadThrows(variant, file)) =>
           /\ modesRun = {mode}
           /\ mode = IF "fix" \in Range(args) THEN "fix" ELSE "check"
           /\ mode = "fix" =>
                  \A e \in Range(started) : e.grp \in {"format", "common"}
           /\ mode = "check" =>
                  \A e \in Range(started) : e.grp \in {"check", "common"}

\* a run with an argument other than "fix" has gone into check mode
C10_Witness ==
    /\ pc # "start"
    /\ Len(args) > 0
    /\ "fix" \notin Range(args)
    /\ modesRun = {"check"}

\* C11: the run is either running commands or terminal: process.exit is called
\* at most once and with one exit code, the terminal state is entered only
\* when every started command has completed, and once it is entered no step
\* of the orchestrator (so no start of a command) is possible any more.
C11_TerminalOnce ==
    /\ exitCalls <= 1
    /\ exitCode \in {-1, 0, 1}
    /\ pc = "done" <=> exitCode # -1
    /\ pc \in {"seq", "par"} => (running # {} /\ exitCalls = 0)
    /\ (pc = "done" /\ mode # "none") => exitCalls = 1
    /\ pc = "done" =>
        /\ running = {}
        /\ Range(started) \subseteq ClosedEntries
        /\ ~ ENABLED Next

\* a run of several commands has reached the terminal state with success
C11_Witness ==
    /\ pc = "done"
    /\ exitCalls = 1
    /\ exitCode = 0
    /\ Len(started) >= 3
    /\ Range(started) \subseteq ClosedEntries

\* C12: when every invoked command completes, the orchestrator eventually
\* reaches its terminal state, in both modes; a command that never completes
\* stays so, and from then on the terminal state is never reached.
C12_TerminatesUnlessHung ==
    /\ <>(pc = "done" \/ hung # {})
    /\ [](hung # {} => pc # "done")
    /\ [][hung \subseteq hung']_vars

\* every other command of a parallel group has completed and the orchestrator
\* still waits for the one that hangs
C12_Witness ==
    /\ pc = "par"
    /\ hung # {}
    /\ running = hung
    /\ Cardinality(ClosedEntries \cap Range(parList)) >= 1

\* C13: there are no retries: no entry of a command group is started more than
\* once, a command that failed is not started again, and a run that has
\* ended has started every entry of the groups of its mode exactly once.
C13_NoRetries ==
    LET Starts(e) == Cardinality({k \in 1..Len(started) : started[k] = e})
        Invoked == IF mode = "check"
                   THEN EntrySet("check", checkOnly)
                        \cup EntrySet("common", parCommon)
                   ELSE IF mode = "fix"
                   THEN EntrySet("format", seqFormat)
                        \cup EntrySet("common", parCommon)
                   ELSE {}
    IN  /\ \A e \in Range(started) : Starts(e) = 1
        /\ \A e \in FailedEntries : Starts(e) = 1 /\ e \notin running
        /\ Cardinality(closed) = Cardinality(ClosedEntries)
        /\ pc = "done" =>
               /\ \A e \in Invoked : Starts(e) = 1
               /\ Len(started) = Cardinality(Invoked)

\* a fix run has ended in which a sequential-format command and a
\* parallel-common command each failed once
C13_Witness ==
    /\ pc = "done"
    /\ mode = "fix"
    /\ \E e \in FailedEntries : e.grp = "format"
    /\ \E e \in FailedEntries : e.grp = "common"
    /\ Len(started) = Len(seqFormat.items) + Len(parCommon.items)
    /\ Len(started) >= 3

\* C15: in check mode the check-only and the parallel-common group are one
\* fan-out: while the orchestrator waits, every command of both groups has
\* been started (none waits for a command of the other group), and before
\* the first completion all of them are running together.
C15_CheckFanOut ==
    (mode = "check" /\ pc = "par") =>
        LET both == EntrySet("check", checkOnly)
                    \cup EntrySet("common", parCommon)
        IN  /\ Range(parList) = both
            /\ \A e \in both : e \in running \/ e \in ClosedEntries
            /\ closed = {} => running = both

\* a check-only command and a parallel-common command are running at the same
\* time, after a command of each group has already completed
C15_Witness ==
    /\ mode = "check"
    /\ pc = "par"
    /\ \E e \in running : e.grp = "check"
    /\ \E e \in running : e.grp = "common"
    /\ \E e \in ClosedEntries : e.grp = "check"
    /\ \E e \in ClosedEntries : e.grp = "common"

\* the records runSequential should hold: one per failed sequential-format
\* command, in execution order
FailedRecords ==
    LET fs == SelectSeq(Entries("format", seqFormat.items),
                        LAMBDA e : e \in FailedEntries)
    IN  [k \in 1..Len(fs) |->
            [command |-> CommandOf(fs[k]), code |-> CodeOf(closed, fs[k])]]

SequentialErrorRaised ==
    \E k \in 1..Len(fixErrors) :
        fixErrors[k].message = "Sequential execution failed"

\* C16: the error list of the sequential pass starts empty and only grows at
\* its end; it holds exactly one record (command string and error) per failed
\* command, none for a successful one, in execution order, and nothing
\* outside a sequential pass; the aggregate error of the pass is raised only
\* after every command of the list was attempted, and exactly when the list
\* is not empty.
C16_ErrorList ==
    /\ [](/\ errors = FailedRecords
          /\ mode # "fix" => errors = <<>>
          /\ seqFormat.defined =>
                 /\ SequentialErrorRaised <=>
                        (pc \in {"par", "done"} /\ Len(errors) > 0)
                 /\ SequentialErrorRaised =>
                        EntrySet("format", seqFormat) \subseteq ClosedEntries)
    /\ [][IsPrefix(errors, errors')]_vars

\* a pass of two commands has ended with a record for the second command only
C16_Witness ==
    /\ mode = "fix"
    /\ pc \in {"par", "done"}
    /\ Len(seqFormat.items) = 2
    /\ Len(errors) = 1
    /\ errors[1].command = seqFormat.items[2]
    /\ SequentialErrorRaised

\* the console lines of a kind written for a command
LinesOf(kinds, cmd) ==
    {k \in 1..Len(console) : console[k].kind \in kinds /\ console[k].cmd = cmd}

\* C17: for every command of the sequential stage that failed, one failure
\* marker line naming it is on the console, before the lines relaying its
\* standard output and standard error and next to them; for a command that
\* succeeded the output is relayed with no failure marker.
C17_MarkerBeforeOutput ==
    \A e \in ClosedEntries :
        e.grp = "format" =>
            LET cmd == CommandOf(e)
                markers == LinesOf({"failed_marker"}, cmd)
                outs == LinesOf({"stdout", "stderr"}, cmd)
            IN  /\ e \in FailedEntries =>
                       /\ Cardinality(markers) = 1
                       /\ \A m \in markers, o \in outs : m < o /\ o <= m + 2
                /\ e \notin FailedEntries => markers = {}
                /\ \A o \in LinesOf({"stdout"}, cmd),
                      p \in LinesOf({"stderr"}, cmd) : o < p

\* a sequential command failed and another succeeded, both with output on
\* standard output and standard error
C17_Witness ==
    /\ \E e \in FailedEntries :
           /\ e.grp = "format"
           /\ Cardinality(LinesOf({"stdout", "stderr"}, CommandOf(e))) = 2
           /\ Cardinality(LinesOf({"failed_marker"}, CommandOf(e))) = 1
    /\ \E e \in ClosedEntries \ FailedEntries :
           /\ e.grp = "format"
           /\ Cardinality(LinesOf({"stdout", "stderr"}, CommandOf(e))) = 2

\* the entries of the groups the selected mode invokes
InvokedEntries ==
    IF mode = "check"
    THEN EntrySet("check", checkOnly) \cup EntrySet("common", parCommon)
    ELSE IF mode = "fix"
    THEN EntrySet("format", seqFormat) \cup EntrySet("common", parCommon)
    ELSE {}

\* the exit code as a function of the mode, the command lists and the exit
\* statuses of the invoked commands
ExitCodeOf(m, fmt, invoked, par, statuses) ==
    IF \E r \in statuses : r.entry \in invoked /\ r.code # 0 THEN 1
    ELSE IF m = "fix" /\ ~fmt.defined THEN 1
    ELSE IF par = {} THEN 1
    ELSE 0

\* C18: the exit code depends on the mode, the command lists and the exit
\* statuses of the invoked commands alone: a run that has ended holds exactly
\* one exit status for every invoked command, and its exit code is the value
\* of one function of these, whatever the order in which the parallel
\* commands were started and completed.
C18_ExitCodeDetermined ==
    (pc = "done" /\ mode # "none") =>
        /\ ClosedEntries = InvokedEntries
        /\ Cardinality(closed) = Cardinality(InvokedEntries)
        /\ exitCode =
             ExitCodeOf(mode, seqFormat, InvokedEntries,
                        InvokedEntries \ EntrySet("format", seqFormat), closed)

\* a check run of three or more commands has ended after some failed and some
\* succeeded
C18_Witness ==
    /\ pc = "done"
    /\ mode = "check"
    /\ Len(parList) >= 3
    /\ Cardinality(FailedEntries) >= 1
    /\ Cardinality(ClosedEntries \ FailedEntries) >= 2
    /\ exitCode = 1

\* the start order the hard-coded lists prescribe for a mode
HardCodedOrder(m) ==
    IF m = "check"
    THEN Entries("check", CHECK_COMMANDS)
         \o Entries("common", PARALLEL_CHECK_COMMANDS)
    ELSE Entries("format", FORMAT_COMMANDS)
         \o Entries("common", PARALLEL_CHECK_COMMANDS)

\* C19: the configuration-file variant loaded with the three hard-coded lists
\* and the hard-coded variant behave alike: in both, the groups after loading
\* are the hard-coded lists, the mode follows from the arguments, the
\* commands are started in the order and under the constraints the lists
\* prescribe for the mode, and the exit code is the same function of the
\* exit statuses.
C19_VariantsAgree ==
    (pc # "start" /\ (variant = "hardcoded" \/ file = HardCodedFile)) =>
        /\ checkOnly = Some(CHECK_COMMANDS)
        /\ seqFormat = Some(FORMAT_COMMANDS)
        /\ parCommon = Some(PARALLEL_CHECK_COMMANDS)
        /\ mode = IF "fix" \in Range(args) THEN "fix" ELSE "check"
        /\ IsPrefix(started, HardCodedOrder(mode))
        /\ \A k \in 1..Len(started) :
               CommandOf(started[k]) =
                   IF started[k].grp = "check"
                   THEN CHECK_COMMANDS[started[k].idx]
                   ELSE IF started[k].grp = "format"
                   THEN FORMAT_COMMANDS[started[k].idx]
                   ELSE PARALLEL_CHECK_COMMANDS[started[k].idx]
        /\ mode = "check" => started = HardCodedOrder("check")
        /\ mode = "fix" =>
               /\ Cardinality({e \in running : e.grp = "format"}) <= 1
               /\ pc = "seq" => Len(started) = Cardinality(closed) + 1
               /\ pc \in {"par", "done"} => started = HardCodedOrder("fix")
        /\ pc = "done" =>
               /\ ClosedEntries = Range(HardCodedOrder(mode))
               /\ exitCode = IF FailedEntries # {} THEN 1 ELSE 0

\* the configuration-file variant, given the hard-coded lists, has ended a fix
\* run with success
C19_Witness ==
    /\ variant = "config"
    /\ file = HardCodedFile
    /\ mode = "fix"
    /\ pc = "done"
    /\ Len(started) = Len(FORMAT_COMMANDS) + Len(PARALLEL_CHECK_COMMANDS)
    /\ exitCode = 0

====
